---- MODULE Spec2Model ----
\* State commands of the plugin (registerDefault): the behaviour lifecycle hook,
\* RemoveObject with its ghost walk, subtree visibility, and the snapshot
\* file commands.  Refs are modelled as small integers, RootRef being the root.
EXTENDS Integers, Sequences, FiniteSets, TLC

VARIABLES tree, cells, last, hook, open, assets, committed,
          calllog, recon, dl, snaps, fetch

vars == <<tree, cells, last, hook, open, assets, committed,
          calllog, recon, dl, snaps, fetch>>

\* ---------------------------------------------------------------- bounds
MaxNodes == 3

MaxVisNodes == 2

MaxSyncRefs == 2

MaxObjs == 3

MaxAssets == 2

MaxSnapshots == 2
MaxEntries == 3
MaxReconNodes == 2
MaxReconObjs == 4

MaxDuplicates == 1

RootRef == 0

Refs == 0..(MaxNodes + MaxVisNodes)

NoRef == -1

\* ---------------------------------------------------------------- StateTree
\* tree.transforms : ref -> [ref, parent, isGhost] (the transform and its state)
\* tree.children   : ref -> sequence of child refs in insertion order
Nodes(t) == DOMAIN t.transforms

Transform(ref, parent, isGhost) == [ref |-> ref, parent |-> parent, isGhost |-> isGhost]

createEmpty(rootGhost) ==
    [transforms |-> [r \in {RootRef} |-> Transform(RootRef, RootRef, rootGhost)],
     children |-> [r \in {RootRef} |-> <<>>]]

SeqToSet(s) == {s[i] : i \in 1..Len(s)}

SeqRemove(s, x) == SelectSeq(s, LAMBDA y : y # x)

RECURSIVE doPreOrderList(_, _)
\* pre-order: a subtree root, then its children left to right
doPreOrderList(t, todo) ==
    IF todo = <<>> THEN <<>>
    ELSE <<Head(todo)>> \o doPreOrderList(t, t.children[Head(todo)] \o Tail(todo))

doPreOrder(t, root) == doPreOrderList(t, <<root>>)

add(t, ref, parent, isGhost) ==
    [transforms |-> [r \in Nodes(t) \cup {ref} |->
                        IF r = ref THEN Transform(ref, parent, isGhost) ELSE t.transforms[r]],
     children |-> [r \in Nodes(t) \cup {ref} |->
                        IF r = ref THEN <<>>
                        ELSE IF r = parent THEN Append(t.children[r], ref)
                        ELSE t.children[r]]]

\* delete(ref): removes the node and its entire subtree
delete(t, ref) ==
    LET gone == SeqToSet(doPreOrder(t, ref))
        keep == Nodes(t) \ gone
    IN [transforms |-> [r \in keep |-> t.transforms[r]],
        children |-> [r \in keep |-> SeqRemove(t.children[r], ref)]]

\* ---------------------------------------------------------------- Cell store
Cell(isGhost) == [isHidden |-> FALSE, isCollapsed |-> FALSE, isGhost |-> isGhost]

updateCellState(cs, ref, update) ==
    IF ref \notin DOMAIN cs THEN cs
    ELSE [cs EXCEPT ![ref] = [f \in DOMAIN cs[ref] |->
                                 IF f \in DOMAIN update THEN update[f] ELSE cs[ref][f]]]

\* updateTree(proposed): the proposed tree is committed; cells of removed nodes
\* are destroyed and cells of added nodes are created
updateTreeCells(cs, proposed) ==
    [r \in Nodes(proposed) |->
        IF r \in DOMAIN cs THEN cs[r] ELSE Cell(proposed.transforms[r].isGhost)]

\* ---------------------------------------------------------------- RemoveObject
RECURSIVE ghostWalk(_, _)
\* the while (true) loop of RemoveObject: the ref handed to remove()
ghostWalk(t, curr) ==
    IF curr.parent = curr.ref \/ Len(t.children[curr.parent]) > 1 THEN curr.ref
    ELSE IF ~t.transforms[curr.parent].isGhost THEN curr.ref
    ELSE ghostWalk(t, t.transforms[curr.parent])

\* RemoveObject with the removeParentGhosts test dropped
RemoveTargetAlwaysWalk(t, ref, removeParentGhosts) ==
    IF t.transforms[ref].parent = ref THEN ref ELSE ghostWalk(t, t.transforms[ref])

\* the ref RemoveObject hands to remove(state, .)
RemoveTarget(t, ref, removeParentGhosts) ==
    IF removeParentGhosts
    THEN IF t.transforms[ref].parent = ref THEN ref ELSE ghostWalk(t, t.transforms[ref])
    ELSE ref

\* function remove(state, ref): state.build().delete(ref), then updateTree
remove(t, ref) == delete(t, ref)

\* a handler whose branches do not return: the plain removal is issued as well
removeCallsFallThrough(t, ref, removeParentGhosts) ==
    IF removeParentGhosts THEN <<RemoveTarget(t, ref, removeParentGhosts), ref>> ELSE <<ref>>

\* the calls of remove() the handler makes: every branch is a return remove(...)
removeCalls(t, ref, removeParentGhosts) == <<RemoveTarget(t, ref, removeParentGhosts)>>

\* ---------------------------------------------------------------- visibility
\* a visitor that flips the flag instead of assigning it
setVisibilityVisitorFlip(cs, ref, value) ==
    updateCellState(cs, ref, [isHidden |-> IF ref \in DOMAIN cs THEN ~cs[ref].isHidden ELSE value])

setVisibilityVisitor(cs, ref, value) == updateCellState(cs, ref, [isHidden |-> value])

RECURSIVE visitAll(_, _, _)
visitAll(cs, order, value) ==
    IF order = <<>> THEN cs
    ELSE visitAll(setVisibilityVisitor(cs, Head(order), value), Tail(order), value)

\* the visitor applied to the root only, without the traversal
setSubtreeVisibilityRootOnly(t, cs, root, value) == setVisibilityVisitor(cs, root, value)

\* the traversal started at the root of the tree instead of at root
setSubtreeVisibilityWholeTree(t, cs, root, value) == visitAll(cs, doPreOrder(t, RootRef), value)

setSubtreeVisibility(t, cs, root, value) == visitAll(cs, doPreOrder(t, root), value)

\* ---------------------------------------------------------------- SyncBehaviors
SyncRefs == 1..MaxSyncRefs

\* a cell without an object, and a ref without a cell
NoObj == [id |-> 0, kind |-> "none"]

NoCell == [id |-> -1, kind |-> "absent"]

StateObject(id, kind) == [id |-> id, kind |-> kind]

\* SO.isBehavior: the object carries the Behavior discriminant
isBehavior(obj) == obj.kind = "Behavior"

Returned(calls) == [calls |-> calls, threw |-> FALSE]

\* o.obj.data.register(o.ref) / o.obj.data.unregister(); either may throw
register(obj, ref) == [fn |-> "register", obj |-> obj.id, ref |-> ref]

unregister(obj) == [fn |-> "unregister", obj |-> obj.id, ref |-> NoRef]

\* ctx.events.state.object.created subscriber
onCreated(o, throws) ==
    IF ~isBehavior(o.obj) THEN Returned(<<>>)
    ELSE [calls |-> <<register(o.obj, o.ref)>>, threw |-> throws.register]

\* ctx.events.state.object.removed subscriber
onRemoved(o, throws) ==
    IF ~isBehavior(o.obj) THEN Returned(<<>>)
    ELSE [calls |-> <<unregister(o.obj)>>, threw |-> throws.unregister]

\* the updated subscriber without the test of o.action
onUpdatedAnyAction(o, throws) ==
    LET old == IF o.oldObj # NoObj /\ isBehavior(o.oldObj)
               THEN [calls |-> <<unregister(o.oldObj)>>, threw |-> throws.unregister]
               ELSE Returned(<<>>)
    IN IF old.threw THEN old
       ELSE IF o.obj # NoObj /\ isBehavior(o.obj)
            THEN [calls |-> Append(old.calls, register(o.obj, o.ref)), threw |-> throws.register]
            ELSE old

\* the updated subscriber with its two statements in the other order
onUpdatedRegisterFirst(o, throws) ==
    IF o.action = "recreate"
    THEN LET new == IF o.obj # NoObj /\ isBehavior(o.obj)
                    THEN [calls |-> <<register(o.obj, o.ref)>>, threw |-> throws.register]
                    ELSE Returned(<<>>)
         IN IF new.threw THEN new
            ELSE IF o.oldObj # NoObj /\ isBehavior(o.oldObj)
                 THEN [calls |-> Append(new.calls, unregister(o.oldObj)),
                       threw |-> throws.unregister]
                 ELSE new
    ELSE Returned(<<>>)

\* ctx.events.state.object.updated subscriber: a throwing unregister leaves the
\* subscriber before its second statement
onUpdated(o, throws) ==
    IF o.action = "recreate"
    THEN LET old == IF o.oldObj # NoObj /\ isBehavior(o.oldObj)
                    THEN [calls |-> <<unregister(o.oldObj)>>, threw |-> throws.unregister]
                    ELSE Returned(<<>>)
         IN IF old.threw THEN old
            ELSE IF o.obj # NoObj /\ isBehavior(o.obj)
                 THEN [calls |-> Append(old.calls, register(o.obj, o.ref)),
                       threw |-> throws.register]
                 ELSE old
    ELSE Returned(<<>>)

\* ---------------------------------------------------------------- Reconciler
\* the notification published for one node of an update
Notification(event, action, ref, obj, oldObj) ==
    [event |-> event, action |-> action, ref |-> ref, obj |-> obj, oldObj |-> oldObj]

\* additions and updates are applied parent before child: the refs of the
\* update in pre-order of the proposed tree
EvaluationOrder(t, refs) == SelectSeq(doPreOrder(t, RootRef), LAMBDA r : r \in refs)

\* publishing is synchronous: the subscriber of the event kind runs before the
\* next node is evaluated
dispatch(n, throws) ==
    IF n.event = "created" THEN onCreated(n, throws)
    ELSE IF n.event = "removed" THEN onRemoved(n, throws)
    ELSE onUpdated(n, throws)

\* the notifications of one update with what the hook did for each of them
Delivered(notes, throws) ==
    [i \in 1..Len(notes) |->
        LET result == dispatch(notes[i], throws[notes[i].ref])
        IN [event |-> notes[i].event, action |-> notes[i].action, ref |-> notes[i].ref,
            obj |-> notes[i].obj, oldObj |-> notes[i].oldObj,
            calls |-> result.calls, threw |-> result.threw]]

\* the objects the evaluation of the refs produces, numbered in evaluation order
Evaluate(order, kinds, firstId) ==
    [r \in SeqToSet(order) |->
        StateObject(firstId + (CHOOSE i \in 1..Len(order) : order[i] = r) - 1, kinds[r])]

\* ---------------------------------------------------------------- Snapshots.OpenFile
AssetIds == 1..MaxAssets

SnapshotIds == 1..MaxSnapshots

\* a file handed to OpenFile: json = the name ends with 'json'; readable = the
\* read of the file succeeds; stateMember / assetsMember = the archive has
\* state.json / assets.json; parses / assetsParse = JSON.parse accepts the
\* text; listed = the ids of the [id, asset] pairs of assets.json; snapshot /
\* wellFormed = the parsed snapshot and whether setSnapshot accepts it
File(json, readable, stateMember, parses, wellFormed, snapshot, assetsMember, assetsParse, listed) ==
    [json |-> json, readable |-> readable, stateMember |-> stateMember, parses |-> parses,
     wellFormed |-> wellFormed, snapshot |-> snapshot, assetsMember |-> assetsMember,
     assetsParse |-> assetsParse, listed |-> listed]

NoFile == File(TRUE, FALSE, FALSE, FALSE, FALSE, 0, FALSE, FALSE, {})

JsonFiles ==
    {File(TRUE, FALSE, FALSE, FALSE, FALSE, 0, FALSE, FALSE, {}),
     File(TRUE, TRUE, TRUE, FALSE, FALSE, 0, FALSE, FALSE, {})}
    \cup {File(TRUE, TRUE, TRUE, TRUE, w, s, FALSE, FALSE, {}) : w \in BOOLEAN, s \in SnapshotIds}

ZipStates ==
    {<<FALSE, FALSE, FALSE, 0>>, <<TRUE, FALSE, FALSE, 0>>}
    \cup {<<TRUE, TRUE, w, s>> : w \in BOOLEAN, s \in SnapshotIds}

ZipAssets ==
    {<<FALSE, FALSE, {}>>, <<TRUE, FALSE, {}>>} \cup {<<TRUE, TRUE, l>> : l \in SUBSET AssetIds}

ZipFiles ==
    {File(FALSE, FALSE, FALSE, FALSE, FALSE, 0, FALSE, FALSE, {})}
    \cup {File(FALSE, TRUE, st[1], st[2], st[3], st[4], as[1], as[2], as[3]) :
             st \in ZipStates, as \in ZipAssets}

Files == JsonFiles \cup ZipFiles

\* the catch block: ctx.log.error, and the handler completes normally
Caught(o) == [o EXCEPT !.pc = "done", !.result = "ok", !.logged = TRUE]

\* the loop over assets.json placed where it registers nothing before the state is applied
setAssetsNone(registry, listed) == registry

\* the registry rebuilt from the index instead of added to
setAssetsReplace(registry, listed) == listed

\* for (const [id, asset] of json) ctx.managers.asset.set(asset, assets[id])
setAssets(registry, listed) == registry \cup listed

\* return ctx.state.setSnapshot(snapshot): the call is inside the try block, its
\* result is returned without being awaited.  A malformed snapshot fails either
\* inside the call (caught) or through the returned promise (not caught).
ReturnSetSnapshot(o, next) ==
    IF o.file.wellFormed THEN next = [o EXCEPT !.pc = "setSnapshot"]
    ELSE next = Caught(o) \/ next = [o EXCEPT !.pc = "setSnapshot"]

\* const snapshot = JSON.parse(...); return ctx.state.setSnapshot(snapshot)
ParseAndApply(o, next) ==
    IF ~(o.file.stateMember /\ o.file.parses) THEN next = Caught(o)
    ELSE ReturnSetSnapshot(o, next)

\* ---------------------------------------------------------------- Snapshots.DownloadToFile
\* member names: 'state.json', 'assets.json' and `assets/${asset.id}`
StateJson == <<"state.json">>

AssetsJson == <<"assets.json">>

AssetMember(id) == <<"assets", id>>

\* JSON.stringify + utf8Write of the snapshot, of the [id, asset] pairs, and the
\* bytes of an asset file
EncodeState(snapshot) == [kind |-> "json-snapshot", ids |-> <<snapshot>>]

\* an index that keeps only the entry pushed first
EncodeIndexFirstOnly(index) ==
    [kind |-> "json-index", ids |-> IF index = <<>> THEN <<>> ELSE <<Head(index)>>]

EncodeIndex(index) == [kind |-> "json-index", ids |-> index]

AssetBytes(id) == [kind |-> "bytes", ids |-> <<id>>]

MemberNames(obj) == [i \in 1..Len(obj) |-> obj[i].name]

HasMember(obj, name) == \E i \in 1..Len(obj) : obj[i].name = name

MemberData(obj, name) == obj[CHOOSE i \in 1..Len(obj) : obj[i].name = name].data

\* zipDataObj[name] = data: an existing key keeps its place, a new key is added last
PutMember(obj, name, data) ==
    IF HasMember(obj, name)
    THEN [i \in 1..Len(obj) |-> IF obj[i].name = name THEN [name |-> name, data |-> data]
                                ELSE obj[i]]
    ELSE Append(obj, [name |-> name, data |-> data])

\* the registry enumerated by ctx.managers.asset.assets: every registered id,
\* an id possibly more than once
RECURSIVE SeqsUpTo(_, _)
SeqsUpTo(S, n) ==
    IF n = 0 THEN {<<>>}
    ELSE LET shorter == SeqsUpTo(S, n - 1)
         IN shorter \cup {Append(q, x) : q \in shorter, x \in S}

\* the registry iterates its entries in a fixed order, taken here as the order
\* of the ids; an id that is listed again comes anywhere after its first entry
FirstEntry(e, id) == CHOOSE i \in 1..Len(e) : e[i] = id /\ \A j \in 1..(i - 1) : e[j] # id

Enumerations(registry) ==
    {e \in SeqsUpTo(registry, Cardinality(registry) + MaxDuplicates) :
        /\ SeqToSet(e) = registry
        /\ \A a, b \in registry : a < b => FirstEntry(e, a) < FirstEntry(e, b)}

\* the test of line 208 with an off-by-one
assetsWrittenMoreThanOne(index) == Len(index) > 1

\* if (assets.length > 0)
assetsWritten(index) == Len(index) > 0

\* lines 208-218: assets.json when any asset was pushed, then zip and download
zipAndDownload(d) ==
    LET obj == IF assetsWritten(d.index)
               THEN PutMember(d.zipDataObj, AssetsJson, EncodeIndex(d.index))
               ELSE d.zipDataObj
    IN [d EXCEPT !.pc = "done", !.zipDataObj = obj, !.archive = obj, !.result = "ok"]

\* a loop that awaits the member without pushing the index entry
nextAssetMemberOnly(d) ==
    IF d.todo = <<>> THEN zipAndDownload(d) ELSE [d EXCEPT !.pc = "reading"]

\* the head of one loop iteration: assets.push([asset.id, asset]), then the
\* await of file.arrayBuffer(); without a next entry the loop is left
nextAsset(d) ==
    IF d.todo = <<>> THEN zipAndDownload(d)
    ELSE [d EXCEPT !.pc = "reading", !.index = Append(d.index, Head(d.todo))]

\* what OpenFile finds in an archive (lines 229-249): the state.json and
\* assets.json members and what JSON.parse makes of them
FileOfArchive(obj) ==
    LET hasState == HasMember(obj, StateJson)
        state == IF hasState THEN MemberData(obj, StateJson) ELSE AssetBytes(0)
        hasIndex == HasMember(obj, AssetsJson)
        index == IF hasIndex THEN MemberData(obj, AssetsJson) ELSE AssetBytes(0)
        parses == state.kind \in {"json-snapshot", "json-index"}
        wellFormed == state.kind = "json-snapshot"
        assetsParse == index.kind = "json-index"
    IN File(FALSE, TRUE, hasState, parses, wellFormed,
            IF wellFormed THEN state.ids[1] ELSE 0,
            hasIndex, assetsParse, IF assetsParse THEN SeqToSet(index.ids) ELSE {})

\* ---------------------------------------------------------------- snapshot list
EntryIds == 1..MaxEntries
NoEntry == 0
NoPayload == -1
Forward == 1
Backward == -1

\* PluginStateSnapshotManager.Entry(snapshot, ...)
Entry(id, data) == [id |-> id, data |-> data]

EntryIdsOf(s) == [i \in 1..Len(s.entries) |-> s.entries[i].id]
HasEntry(s, id) == \E i \in 1..Len(s.entries) : s.entries[i].id = id
IndexOf(s, id) == CHOOSE i \in 1..Len(s.entries) : s.entries[i].id = id

\* add(entry): appends; becomes current
snapshotsAdd(s, entry) == [entries |-> Append(s.entries, entry), current |-> entry.id]

\* a remove that leaves the current id as it was
snapshotsRemoveKeepCurrent(s, id) ==
    IF ~HasEntry(s, id) THEN s
    ELSE [s EXCEPT !.entries = SeqRemove(s.entries, s.entries[IndexOf(s, id)])]

\* remove(id): deletes by id; if it was current, current becomes none
snapshotsRemove(s, id) ==
    IF ~HasEntry(s, id) THEN s
    ELSE [entries |-> SeqRemove(s.entries, s.entries[IndexOf(s, id)]),
          current |-> IF s.current = id THEN NoEntry ELSE s.current]

\* a move that overwrites the neighbor instead of exchanging with it
snapshotsMoveOverwrite(s, id, dir) ==
    IF ~HasEntry(s, id) THEN s
    ELSE LET i == IndexOf(s, id)
             j == i + dir
         IN IF j < 1 \/ j > Len(s.entries) THEN s
            ELSE [s EXCEPT !.entries = [s.entries EXCEPT ![j] = s.entries[i]]]

\* move(id, dir): swaps the entry with its neighbor; no-op at a boundary
snapshotsMove(s, id, dir) ==
    IF ~HasEntry(s, id) THEN s
    ELSE LET i == IndexOf(s, id)
             j == i + dir
         IN IF j < 1 \/ j > Len(s.entries) THEN s
            ELSE [s EXCEPT !.entries = [s.entries EXCEPT ![i] = s.entries[j],
                                                         ![j] = s.entries[i]]]

\* replace(id, data): overwrites the payload in place, position and id kept
snapshotsReplace(s, id, data) ==
    IF ~HasEntry(s, id) THEN s
    ELSE [s EXCEPT !.entries = [s.entries EXCEPT ![IndexOf(s, id)] = Entry(id, data)]]

\* clear(): empties the sequence and clears current
snapshotsClear(s) == [entries |-> <<>>, current |-> NoEntry]

\* the handler without its test of the payload
callsSetSnapshotAlways(found) == TRUE

\* if (!snapshot) return: setSnapshot is called only with a payload
callsSetSnapshot(found) == found

\* setCurrent(id): the payload if the entry is found, and the entry is marked
\* current; null otherwise
setCurrentFound(s, id) == HasEntry(s, id)
setCurrentData(s, id) == IF HasEntry(s, id) THEN s.entries[IndexOf(s, id)].data ELSE NoPayload
setCurrent(s, id) == IF HasEntry(s, id) THEN [s EXCEPT !.current = id] ELSE s

\* setSnapshot(data): a payload replaces the committed state; without one the
\* call fails before the state is touched
setSnapshot(state, data) == IF data = NoPayload THEN state ELSE data

\* ---------------------------------------------------------------- Snapshots.Fetch
\* a failed request answered by issuing the request again
requestSettledRetry(f, ok, data, wellFormed) ==
    IF ok THEN [f EXCEPT !.pc = "setRemoteSnapshot", !.response = "ok", !.data = data,
                         !.wellFormed = wellFormed]
    ELSE [f EXCEPT !.pc = "request", !.requests = f.requests + 1, !.response = "failed"]

\* const json = await ctx.runTask(ctx.fetch({ url, type: 'json' })): a rejected
\* request rejects the handler; otherwise setRemoteSnapshot(json.data) is called
requestSettled(f, ok, data, wellFormed) ==
    IF ok THEN [f EXCEPT !.pc = "setRemoteSnapshot", !.response = "ok", !.data = data,
                         !.wellFormed = wellFormed]
    ELSE [f EXCEPT !.pc = "done", !.response = "failed", !.result = "failed"]

\* ---------------------------------------------------------------- defaults
NoLast == [op |-> "none", ref |-> NoRef, flag |-> FALSE, target |-> NoRef, removed |-> {}]

IdleHook ==
    [event |-> "none", action |-> "none", ref |-> NoRef, obj |-> NoObj, oldObj |-> NoObj,
     calls |-> <<>>, threw |-> FALSE, cell |-> [r \in SyncRefs |-> NoCell], nextId |-> 1]

IdleOpen ==
    [pc |-> "idle", file |-> NoFile, before |-> 0, result |-> "none", logged |-> FALSE]

IdleRecon == [objs |-> [r \in {RootRef} |-> NoObj], events |-> <<>>, nextId |-> 1]

IdleDl ==
    [pc |-> "idle", type |-> "none", snapshot |-> 0, enum |-> <<>>, todo |-> <<>>,
     index |-> <<>>, zipDataObj |-> <<>>, result |-> "none", archive |-> <<>>,
     changed |-> FALSE]

NoSnapshots == [entries |-> <<>>, current |-> NoEntry]

IdleFetch ==
    [pc |-> "idle", before |-> 0, requests |-> 0, response |-> "none", data |-> 0,
     wellFormed |-> FALSE, result |-> "none"]

\* ---------------------------------------------------------------- state commands
InitState ==
    /\ \E g \in BOOLEAN : tree = createEmpty(g) /\ cells = [r \in {RootRef} |-> Cell(g)]
    /\ last = NoLast

\* PluginCommands.State.Update with a tree built by adding one transform;
\* at most n transforms below the root
UpdateUpTo(n) ==
    /\ Nodes(tree) # {}
    /\ Cardinality(Nodes(tree)) <= n
    /\ \E parent \in Nodes(tree), g \in BOOLEAN :
          LET ref == CHOOSE r \in Refs \ Nodes(tree) : \A q \in Refs \ Nodes(tree) : r <= q
              proposed == add(tree, ref, parent, g)
          IN /\ tree' = proposed
             /\ cells' = updateTreeCells(cells, proposed)
             /\ last' = [op |-> "Update", ref |-> ref, flag |-> g, target |-> parent,
                         removed |-> {}]
    /\ UNCHANGED <<hook, open, assets, committed, calllog, recon, dl, snaps, fetch>>

Update == UpdateUpTo(MaxNodes)

RemoveObject ==
    /\ \E ref \in Nodes(tree), removeParentGhosts \in BOOLEAN :
          LET target == Head(removeCalls(tree, ref, removeParentGhosts))
              proposed == remove(tree, target)
          IN /\ tree' = proposed
             /\ cells' = updateTreeCells(cells, proposed)
             /\ last' = [op |-> "RemoveObject", ref |-> ref, flag |-> removeParentGhosts,
                         target |-> target, removed |-> Nodes(tree) \ Nodes(proposed)]
    /\ UNCHANGED <<hook, open, assets, committed, calllog, recon, dl, snaps, fetch>>

Init ==
    /\ InitState
    /\ hook = IdleHook
    /\ open = IdleOpen
    /\ assets = {}
    /\ committed = 0
    /\ calllog = <<>>
    /\ recon = IdleRecon
    /\ dl = IdleDl
    /\ snaps = NoSnapshots
    /\ fetch = IdleFetch

Next == Update \/ RemoveObject

Spec == Init /\ [][Next]_vars

\* ---------------------------------------------------------------- visibility commands
UpdateVis == UpdateUpTo(MaxVisNodes)

ToggleExpanded ==
    /\ \E ref \in Nodes(tree) :
          /\ cells' = updateCellState(cells, ref, [isCollapsed |-> ~cells[ref].isCollapsed])
          /\ last' = [op |-> "ToggleExpanded", ref |-> ref, flag |-> ~cells[ref].isCollapsed,
                      target |-> ref, removed |-> {}]
    /\ UNCHANGED <<tree, hook, open, assets, committed, calllog, recon, dl, snaps, fetch>>

ToggleVisibility ==
    /\ \E ref \in Nodes(tree) :
          /\ cells' = setSubtreeVisibility(tree, cells, ref, ~cells[ref].isHidden)
          /\ last' = [op |-> "ToggleVisibility", ref |-> ref, flag |-> ~cells[ref].isHidden,
                      target |-> ref, removed |-> {}]
    /\ UNCHANGED <<tree, hook, open, assets, committed, calllog, recon, dl, snaps, fetch>>

SetSubtreeVisibility ==
    /\ \E root \in Nodes(tree), value \in BOOLEAN :
          /\ cells' = setSubtreeVisibility(tree, cells, root, value)
          /\ last' = [op |-> "setSubtreeVisibility", ref |-> root, flag |-> value,
                      target |-> root, removed |-> {}]
    /\ UNCHANGED <<tree, hook, open, assets, committed, calllog, recon, dl, snaps, fetch>>

NextVis == UpdateVis \/ ToggleExpanded \/ ToggleVisibility \/ SetSubtreeVisibility

SpecVis == Init /\ [][NextVis]_vars

\* ---------------------------------------------------------------- object events
Throws == [register : BOOLEAN, unregister : BOOLEAN]

ObjectKinds == {"Behavior", "Other"}

\* the event record the hook keeps after the subscriber has run
Handled(event, action, ref, obj, oldObj, result, cell, nextId) ==
    [event |-> event, action |-> action, ref |-> ref, obj |-> obj, oldObj |-> oldObj,
     calls |-> result.calls, threw |-> result.threw, cell |-> cell, nextId |-> nextId]

\* a cell gets its first object: events.state.object.created
ObjectCreated ==
    /\ hook.nextId <= MaxObjs
    /\ \E ref \in SyncRefs, kind \in ObjectKinds, throws \in Throws :
          /\ hook.cell[ref] = NoCell
          /\ LET obj == StateObject(hook.nextId, kind)
                 o == [ref |-> ref, obj |-> obj]
             IN hook' = Handled("created", "none", ref, obj, NoObj, onCreated(o, throws),
                                [hook.cell EXCEPT ![ref] = obj], hook.nextId + 1)
    /\ calllog' = calllog \o hook'.calls
    /\ UNCHANGED <<tree, cells, last, open, assets, committed, recon, dl, snaps, fetch>>

\* a cell is removed: events.state.object.removed
ObjectRemoved ==
    /\ \E ref \in SyncRefs, throws \in Throws :
          /\ hook.cell[ref] # NoCell
          /\ LET o == [ref |-> ref, obj |-> hook.cell[ref]]
             IN hook' = Handled("removed", "none", ref, o.obj, NoObj, onRemoved(o, throws),
                                [hook.cell EXCEPT ![ref] = NoCell], hook.nextId)
    /\ calllog' = calllog \o hook'.calls
    /\ UNCHANGED <<tree, cells, last, open, assets, committed, recon, dl, snaps, fetch>>

\* the object of a cell is replaced: events.state.object.updated, 'recreate'
ObjectRecreated ==
    /\ hook.nextId <= MaxObjs
    /\ \E ref \in SyncRefs, throws \in Throws,
          obj \in {NoObj} \cup {StateObject(hook.nextId, k) : k \in ObjectKinds} :
          /\ hook.cell[ref] # NoCell
          /\ LET o == [ref |-> ref, action |-> "recreate", oldObj |-> hook.cell[ref],
                       obj |-> obj]
             IN hook' = Handled("updated", "recreate", ref, obj, o.oldObj, onUpdated(o, throws),
                                [hook.cell EXCEPT ![ref] = obj],
                                IF obj = NoObj THEN hook.nextId ELSE hook.nextId + 1)
    /\ calllog' = calllog \o hook'.calls
    /\ UNCHANGED <<tree, cells, last, open, assets, committed, recon, dl, snaps, fetch>>

\* the object of a cell is updated in place: events.state.object.updated, 'in-place'
ObjectUpdatedInPlace ==
    /\ \E ref \in SyncRefs, throws \in Throws :
          /\ hook.cell[ref] \notin {NoCell, NoObj}
          /\ LET o == [ref |-> ref, action |-> "in-place", oldObj |-> hook.cell[ref],
                       obj |-> hook.cell[ref]]
             IN hook' = Handled("updated", "in-place", ref, o.obj, o.oldObj,
                                onUpdated(o, throws), hook.cell, hook.nextId)
    /\ calllog' = calllog \o hook'.calls
    /\ UNCHANGED <<tree, cells, last, open, assets, committed, recon, dl, snaps, fetch>>

NextSync == ObjectCreated \/ ObjectRemoved \/ ObjectRecreated \/ ObjectUpdatedInPlace

SpecSync == Init /\ [][NextSync]_vars

\* ---------------------------------------------------------------- OpenFile steps
\* the command is issued; the handler runs up to its first await
OpenFile ==
    /\ open.pc \in {"idle", "done"}
    /\ \E file \in Files :
          open' = [pc |-> "readFile", file |-> file, before |-> committed,
                   result |-> "pending", logged |-> FALSE]
    /\ UNCHANGED <<tree, cells, last, hook, assets, committed, calllog, recon, dl, snaps, fetch>>

\* readFromFile(file, 'string' | 'zip') has settled
OpenFileRead ==
    /\ open.pc = "readFile"
    /\ IF ~open.file.readable THEN open' = Caught(open)
       ELSE IF open.file.json THEN ParseAndApply(open, open')
       ELSE open' = [open EXCEPT !.pc = "readState"]
    /\ UNCHANGED <<tree, cells, last, hook, assets, committed, calllog, recon, dl, snaps, fetch>>

\* readFromFile(stateFile, 'string') has settled
OpenFileReadState ==
    /\ open.pc = "readState"
    /\ IF open.file.assetsMember THEN open' = [open EXCEPT !.pc = "readAssets"]
       ELSE ParseAndApply(open, open')
    /\ UNCHANGED <<tree, cells, last, hook, assets, committed, calllog, recon, dl, snaps, fetch>>

\* readFromFile(assets.json) has settled: parse, register, then apply the state
OpenFileReadAssets ==
    /\ open.pc = "readAssets"
    /\ IF ~open.file.assetsParse
       THEN open' = Caught(open) /\ assets' = assets
       ELSE /\ assets' = setAssets(assets, open.file.listed)
            /\ ParseAndApply(open, open')
    /\ UNCHANGED <<tree, cells, last, hook, committed, calllog, recon, dl, snaps, fetch>>

\* the promise of setSnapshot settles
SetSnapshotSettled ==
    /\ open.pc = "setSnapshot"
    /\ IF open.file.wellFormed
       THEN /\ committed' = open.file.snapshot
            /\ open' = [open EXCEPT !.pc = "done", !.result = "ok"]
       ELSE /\ committed' = committed
            /\ open' = [open EXCEPT !.pc = "done", !.result = "failed"]
    /\ UNCHANGED <<tree, cells, last, hook, assets, calllog, recon, dl, snaps, fetch>>

NextOpen == OpenFile \/ OpenFileRead \/ OpenFileReadState \/ OpenFileReadAssets
            \/ SetSnapshotSettled

SpecOpen == Init /\ [][NextOpen]_vars

\* ---------------------------------------------------------------- DownloadToFile steps
\* ctx.managers.asset.set called by another component
AssetSet ==
    /\ \E id \in AssetIds \ assets : assets' = assets \cup {id}
    /\ dl' = IF dl.pc = "reading" THEN [dl EXCEPT !.changed = TRUE] ELSE dl
    /\ UNCHANGED <<tree, cells, last, hook, open, committed, calllog, recon, snaps, fetch>>

\* the state is changed by other commands
StateEdited ==
    /\ \E s \in SnapshotIds \ {committed} : committed' = s
    /\ last' = [NoLast EXCEPT !.op = "StateEdited"]
    /\ UNCHANGED <<tree, cells, hook, open, assets, calllog, recon, dl, snaps, fetch>>

\* the plugin is started again with an empty registry; a downloaded file stays
NewSession ==
    /\ dl.pc \in {"idle", "done"}
    /\ open.pc \in {"idle", "done"}
    /\ assets # {} \/ committed # 0
    /\ assets' = {}
    /\ committed' = 0
    /\ open' = IdleOpen
    /\ UNCHANGED <<tree, cells, last, hook, calllog, recon, dl, snaps, fetch>>

\* the command is issued while no other file command is in flight; the handler
\* runs up to its first await
DownloadToFile ==
    /\ dl.pc \in {"idle", "done"}
    /\ open.pc \in {"idle", "done"}
    /\ open' = IdleOpen
    /\ \E type \in {"json", "zip"}, enum \in Enumerations(assets) :
          LET d == [pc |-> "start", type |-> type, snapshot |-> committed,
                    enum |-> IF type = "zip" THEN enum ELSE <<>>,
                    todo |-> IF type = "zip" THEN enum ELSE <<>>,
                    index |-> <<>>, zipDataObj |-> <<>>, result |-> "pending",
                    archive |-> <<>>, changed |-> FALSE]
          IN IF type = "json"
             THEN dl' = [d EXCEPT !.pc = "done", !.result = "ok"]
             ELSE dl' = nextAsset([d EXCEPT !.zipDataObj =
                                      PutMember(<<>>, StateJson, EncodeState(committed))])
    /\ UNCHANGED <<tree, cells, last, hook, assets, committed, calllog, recon, snaps, fetch>>

\* file.arrayBuffer() has settled for the asset pushed last
DownloadAssetRead ==
    /\ dl.pc = "reading"
    /\ \E readable \in BOOLEAN :
          IF ~readable THEN dl' = [dl EXCEPT !.pc = "done", !.result = "failed"]
          ELSE LET id == Head(dl.todo)
               IN dl' = nextAsset([dl EXCEPT
                                      !.zipDataObj = PutMember(dl.zipDataObj, AssetMember(id),
                                                               AssetBytes(id)),
                                      !.todo = Tail(dl.todo)])
    /\ UNCHANGED <<tree, cells, last, hook, open, assets, committed, calllog, recon, snaps, fetch>>

\* OpenFile with the archive that DownloadToFile produced
OpenDownloaded ==
    /\ open.pc \in {"idle", "done"}
    /\ dl.pc = "done"
    /\ dl.result = "ok"
    /\ dl.type = "zip"
    /\ open' = [pc |-> "readFile", file |-> FileOfArchive(dl.archive), before |-> committed,
                result |-> "pending", logged |-> FALSE]
    /\ UNCHANGED <<tree, cells, last, hook, assets, committed, calllog, recon, dl, snaps, fetch>>

NextDl == AssetSet \/ StateEdited \/ NewSession \/ DownloadToFile \/ DownloadAssetRead
          \/ OpenDownloaded \/ OpenFileRead \/ OpenFileReadState \/ OpenFileReadAssets
          \/ SetSnapshotSettled

SpecDl == Init /\ [][NextDl]_vars

\* ---------------------------------------------------------------- snapshot commands
SnapshotCommand(op, id, dir, called) ==
    [op |-> op, ref |-> id, flag |-> called, target |-> dir, removed |-> {}]

Clear ==
    /\ snaps' = snapshotsClear(snaps)
    /\ last' = SnapshotCommand("Clear", NoEntry, 0, FALSE)
    /\ UNCHANGED <<tree, cells, hook, open, assets, committed, calllog, recon, dl, fetch>>

Remove ==
    /\ \E id \in EntryIds :
          /\ snaps' = snapshotsRemove(snaps, id)
          /\ last' = SnapshotCommand("Remove", id, 0, FALSE)
    /\ UNCHANGED <<tree, cells, hook, open, assets, committed, calllog, recon, dl, fetch>>

\* the entry gets a generated id and the payload of getSnapshot
Add ==
    /\ Len(snaps.entries) < MaxEntries
    /\ \E id \in EntryIds \ SeqToSet(EntryIdsOf(snaps)) :
          /\ snaps' = snapshotsAdd(snaps, Entry(id, committed))
          /\ last' = SnapshotCommand("Add", id, 0, FALSE)
    /\ UNCHANGED <<tree, cells, hook, open, assets, committed, calllog, recon, dl, fetch>>

Replace ==
    /\ \E id \in EntryIds :
          /\ snaps' = snapshotsReplace(snaps, id, committed)
          /\ last' = SnapshotCommand("Replace", id, 0, FALSE)
    /\ UNCHANGED <<tree, cells, hook, open, assets, committed, calllog, recon, dl, fetch>>

Move ==
    /\ \E id \in EntryIds, dir \in {Backward, Forward} :
          /\ snaps' = snapshotsMove(snaps, id, dir)
          /\ last' = SnapshotCommand("Move", id, dir, FALSE)
    /\ UNCHANGED <<tree, cells, hook, open, assets, committed, calllog, recon, dl, fetch>>

\* const snapshot = setCurrent(id); if (!snapshot) return; return setSnapshot(snapshot)
Apply ==
    /\ \E id \in EntryIds :
          LET called == callsSetSnapshot(setCurrentFound(snaps, id))
          IN /\ snaps' = setCurrent(snaps, id)
             /\ committed' = IF called THEN setSnapshot(committed, setCurrentData(snaps, id))
                            ELSE committed
             /\ last' = SnapshotCommand("Apply", id, 0, called)
    /\ UNCHANGED <<tree, cells, hook, open, assets, calllog, recon, dl, fetch>>

\* the command is issued: the read request is sent
Fetch ==
    /\ fetch.pc \in {"idle", "done"}
    /\ fetch' = [IdleFetch EXCEPT !.pc = "request", !.before = committed, !.requests = 1,
                                  !.response = "pending", !.result = "pending"]
    /\ UNCHANGED <<tree, cells, last, hook, open, assets, committed, calllog, recon, dl, snaps>>

\* the request has settled
FetchRequestSettled ==
    /\ fetch.pc = "request"
    /\ \E ok \in BOOLEAN, data \in SnapshotIds, wellFormed \in BOOLEAN :
          fetch' = requestSettled(fetch, ok, data, wellFormed)
    /\ UNCHANGED <<tree, cells, last, hook, open, assets, committed, calllog, recon, dl, snaps>>

\* setRemoteSnapshot(json.data) has settled
SetRemoteSnapshotSettled ==
    /\ fetch.pc = "setRemoteSnapshot"
    /\ IF fetch.wellFormed
       THEN /\ committed' = fetch.data
            /\ fetch' = [fetch EXCEPT !.pc = "done", !.result = "ok"]
       ELSE /\ committed' = committed
            /\ fetch' = [fetch EXCEPT !.pc = "done", !.result = "failed"]
    /\ UNCHANGED <<tree, cells, last, hook, open, assets, calllog, recon, dl, snaps>>

NextSnap == Clear \/ Remove \/ Add \/ Replace \/ Move \/ Apply \/ StateEdited

SpecSnap == Init /\ [][NextSnap]_vars

NextFetch == Fetch \/ FetchRequestSettled \/ SetRemoteSnapshotSettled \/ StateEdited

SpecFetch == Init /\ [][NextFetch]_vars

\* ---------------------------------------------------------------- updates and their events
\* the committed objects after an update that produced `made`
Committed(objs, proposed, made) ==
    [r \in Nodes(proposed) |-> IF r \in DOMAIN made THEN made[r] ELSE objs[r]]

\* the reconciler applies an update whose added or recreated refs are `refs`
Reconciled(proposed, refs, event, action, kinds, throws) ==
    LET order == EvaluationOrder(proposed, refs)
        made == Evaluate(order, kinds, recon.nextId)
        notes == [i \in 1..Len(order) |->
                     Notification(event, action, order[i], made[order[i]],
                                  IF event = "created" THEN NoObj ELSE recon.objs[order[i]])]
    IN [objs |-> Committed(recon.objs, proposed, made),
        events |-> Delivered(notes, throws),
        nextId |-> recon.nextId + Len(order)]

\* PluginCommands.State.Update with a tree that adds one transform, or a
\* transform and a second one below any node, the first included
UpdateCreates ==
    /\ Nodes(tree) # {}
    /\ \E count \in 1..2 :
          /\ Cardinality(Nodes(tree)) - 1 + count <= MaxReconNodes
          /\ recon.nextId + count - 1 <= MaxReconObjs
          /\ \E p1 \in Nodes(tree) :
                LET free == Refs \ Nodes(tree)
                    r1 == CHOOSE r \in free : \A q \in free : r <= q
                    t1 == add(tree, r1, p1, FALSE)
                IN \E p2 \in Nodes(t1) :
                      LET r2 == CHOOSE r \in free \ {r1} : \A q \in free \ {r1} : r <= q
                          proposed == IF count = 1 THEN t1 ELSE add(t1, r2, p2, FALSE)
                          added == Nodes(proposed) \ Nodes(tree)
                      IN /\ count = 1 => p2 = p1
                         /\ \E kinds \in [added -> ObjectKinds], throws \in [added -> Throws] :
                               /\ tree' = proposed
                               /\ cells' = updateTreeCells(cells, proposed)
                               /\ recon' = Reconciled(proposed, added, "created", "none",
                                                      kinds, throws)
                               /\ last' = [op |-> "Update", ref |-> r1, flag |-> FALSE,
                                           target |-> p1, removed |-> {}]
    /\ UNCHANGED <<hook, open, assets, committed, calllog, dl, snaps, fetch>>

\* PluginCommands.State.Update with a tree that changes the transform of ref:
\* ref is recreated and the recreate cascades to all its descendants
UpdateRecreates ==
    /\ \E ref \in Nodes(tree) \ {RootRef} :
          LET refs == SeqToSet(doPreOrder(tree, ref))
          IN /\ recon.nextId + Cardinality(refs) - 1 <= MaxReconObjs
             /\ \E kinds \in [refs -> ObjectKinds], throws \in [refs -> Throws] :
                   /\ recon' = Reconciled(tree, refs, "updated", "recreate", kinds, throws)
                   /\ last' = [op |-> "Update", ref |-> ref, flag |-> TRUE,
                               target |-> tree.transforms[ref].parent, removed |-> {}]
    /\ UNCHANGED <<tree, cells, hook, open, assets, committed, calllog, dl, snaps, fetch>>

NextReconcile == UpdateCreates \/ UpdateRecreates

SpecReconcile == Init /\ [][NextReconcile]_vars

\* ================================================================ properties
RECURSIVE IsAncestorOrSelf(_, _, _)
\* a is n or an ancestor of n, following parent references
IsAncestorOrSelf(t, a, n) ==
    \/ n = a
    \/ /\ t.transforms[n].parent # n
       /\ IsAncestorOrSelf(t, a, t.transforms[n].parent)

SubtreeOf(t, ref) == {n \in Nodes(t) : IsAncestorOrSelf(t, ref, n)}

IsTreeRoot(t, n) == t.transforms[n].parent = n

RECURSIVE GhostTop(_, _)
\* the rule of the ghost cascade: step to the parent while it is not the tree
\* root, has exactly one child and is flagged isGhost
GhostTop(t, n) ==
    LET p == t.transforms[n].parent
    IN IF /\ ~IsTreeRoot(t, n)
          /\ ~IsTreeRoot(t, p)
          /\ Len(t.children[p]) = 1
          /\ t.transforms[p].isGhost
       THEN GhostTop(t, p)
       ELSE n

\* tree is root -> G1 -> ... -> Gk -> leaf with k >= 1, every Gi a ghost with one child
IsGhostChain(t, leaf) ==
    /\ leaf \in Nodes(t)
    /\ Cardinality(Nodes(t)) >= 3
    /\ t.children[leaf] = <<>>
    /\ \A n \in Nodes(t) \ {leaf} : Len(t.children[n]) = 1
    /\ \A n \in Nodes(t) \ {leaf} : ~IsTreeRoot(t, n) => t.transforms[n].isGhost

RemovedWithGhosts == last'.op = "RemoveObject" /\ last'.flag

RemovedPlain == last'.op = "RemoveObject" /\ ~last'.flag

\* C1: RemoveObject with removeParentGhosts=true on a non-root ref removes the
\* highest ancestor reached by walking up while the parent is not the tree root,
\* has exactly one child and is flagged isGhost.
C1_GhostRule ==
    [][(RemovedWithGhosts /\ ~IsTreeRoot(tree, last'.ref))
          => last'.target = GhostTop(tree, last'.ref)]_vars

\* C2: on a chain root -> G1 -> ... -> Gk -> L of single-child ghosts,
\* RemoveObject(L, removeParentGhosts=true) removes starting at G1 and leaves a
\* tree that consists of the root only.
C2_GhostChain ==
    [][(RemovedWithGhosts /\ IsGhostChain(tree, last'.ref))
          => /\ last'.target = tree.children[RootRef][1]
             /\ Nodes(tree') = {RootRef}]_vars

\* C3: RemoveObject without removeParentGhosts removes exactly ref and its
\* subtree; every other node stays with its transform (and parent) unchanged.
C3_PlainRemove ==
    [][RemovedPlain
          => /\ Nodes(tree') = Nodes(tree) \ SubtreeOf(tree, last'.ref)
             /\ \A n \in Nodes(tree') : tree'.transforms[n] = tree.transforms[n]
             /\ DOMAIN cells' = Nodes(tree')]_vars

\* a plain removal took a subtree of two or more nodes out of a larger tree
C3_Witness ==
    /\ last.op = "RemoveObject"
    /\ ~last.flag
    /\ last.ref # RootRef
    /\ Cardinality(last.removed) >= 2
    /\ Cardinality(Nodes(tree)) >= 2

\* C7: after setSubtreeVisibility(root, value) the cell of root and of every
\* descendant of root has isHidden = value.
C7_SubtreeHidden ==
    last.op = "setSubtreeVisibility"
        => \A n \in SubtreeOf(tree, last.ref) :
              n \in DOMAIN cells /\ cells[n].isHidden = last.flag

\* a proper subtree was set while a node outside it keeps the other value
C7_Witness ==
    /\ last.op = "setSubtreeVisibility"
    /\ last.ref # RootRef
    /\ Cardinality(SubtreeOf(tree, last.ref)) >= 2
    /\ \E m \in Nodes(tree) \ SubtreeOf(tree, last.ref) : cells[m].isHidden # last.flag

\* C8: setSubtreeVisibility is idempotent: a second application with the same
\* root and value leaves the cell store of the first application unchanged.
C8_Idempotent ==
    \A root \in Nodes(tree), value \in BOOLEAN :
        LET once == setSubtreeVisibility(tree, cells, root, value)
        IN setSubtreeVisibility(tree, once, root, value) = once

\* the whole tree of three nodes was just made visible again
C8_Witness ==
    /\ last.op = "setSubtreeVisibility"
    /\ last.ref = RootRef
    /\ ~last.flag
    /\ Cardinality(Nodes(tree)) >= 3
    /\ \A n \in Nodes(tree) : ~cells[n].isHidden

CallNames(calls) == [i \in 1..Len(calls) |-> calls[i].fn]

IsBehaviorObject(obj) == obj.kind = "Behavior"

\* C4: created with a behavior object calls register with the event's ref,
\* removed with a behavior object calls unregister; events without a behavior
\* object and in-place updates make no call.
C4_HookCalls ==
    /\ (hook.event = "created" /\ IsBehaviorObject(hook.obj))
          => hook.calls = <<[fn |-> "register", obj |-> hook.obj.id, ref |-> hook.ref]>>
    /\ (hook.event = "removed" /\ IsBehaviorObject(hook.obj))
          => /\ CallNames(hook.calls) = <<"unregister">>
             /\ hook.calls[1].obj = hook.obj.id
    /\ (hook.event \in {"created", "removed"} /\ ~IsBehaviorObject(hook.obj))
          => hook.calls = <<>>
    /\ (hook.event = "updated" /\ ~IsBehaviorObject(hook.obj) /\ ~IsBehaviorObject(hook.oldObj))
          => hook.calls = <<>>
    /\ (hook.event = "updated" /\ hook.action = "in-place")
          => hook.calls = <<>>

\* a behavior that was registered on creation has just been unregistered on removal
C4_Witness ==
    /\ hook.event = "removed"
    /\ IsBehaviorObject(hook.obj)
    /\ CallNames(hook.calls) = <<"unregister">>

\* C5: on recreate the unregister of the old behavior comes before the register
\* of the new one (against the event's ref); with one behavior only, that one
\* call is the only call; no other call is made.
C5_RecreateOrder ==
    (hook.event = "updated" /\ hook.action = "recreate")
        => LET old == IsBehaviorObject(hook.oldObj)
               new == IsBehaviorObject(hook.obj)
               unreg == [fn |-> "unregister", obj |-> hook.oldObj.id, ref |-> NoRef]
               reg == [fn |-> "register", obj |-> hook.obj.id, ref |-> hook.ref]
           IN /\ (old /\ new) => /\ Len(hook.calls) \in {1, 2}
                                 /\ hook.calls[1] = unreg
                                 /\ Len(hook.calls) = 2 => hook.calls[2] = reg
                                 /\ ~hook.threw => hook.calls = <<unreg, reg>>
              /\ (old /\ ~new) => hook.calls = <<unreg>>
              /\ (~old /\ new) => hook.calls = <<reg>>

\* a behavior was replaced by a behavior: unregister, then register
C5_Witness ==
    /\ hook.event = "updated"
    /\ hook.action = "recreate"
    /\ IsBehaviorObject(hook.oldObj)
    /\ IsBehaviorObject(hook.obj)
    /\ CallNames(hook.calls) = <<"unregister", "register">>

\* C6: a throwing register or unregister does not stop the hook from handling
\* the rest: on recreate the new behavior is registered against the ref even
\* when the unregister of the old behavior fails.
C6_FailureIsolated ==
    (hook.event = "updated" /\ hook.action = "recreate" /\ IsBehaviorObject(hook.obj))
        => \E i \in 1..Len(hook.calls) :
              hook.calls[i] = [fn |-> "register", obj |-> hook.obj.id, ref |-> hook.ref]

\* C9: when OpenFile unpacks an archive, setSnapshot never starts while an
\* asset listed in assets.json is unregistered.
C9_AssetsBeforeState ==
    (open.pc = "setSnapshot" /\ ~open.file.json) => open.file.listed \subseteq assets

\* setSnapshot has started for an archive that lists every asset id
C9_Witness ==
    /\ open.pc = "setSnapshot"
    /\ ~open.file.json
    /\ open.file.listed = AssetIds
    /\ open.file.listed \subseteq assets

\* the file cannot be read, a member does not parse, state.json is missing, or
\* setSnapshot rejects the snapshot
OpenFails(file) ==
    \/ ~file.readable
    \/ ~file.stateMember
    \/ ~file.parses
    \/ (~file.json /\ file.assetsMember /\ ~file.assetsParse)
    \/ ~file.wellFormed

\* C10: every parse or structural failure during OpenFile is caught and logged:
\* the handler completes without failing and the tree is the one before the call.
C10_OpenFailureIsNoOp ==
    (open.pc = "done" /\ OpenFails(open.file))
        => /\ open.result = "ok"
           /\ open.logged
           /\ committed = open.before

Archived == dl.pc = "done" /\ dl.result = "ok" /\ dl.type = "zip"

\* C12: a bundled archive always has state.json, exactly one assets/<id> member
\* per registered asset id and no other member; assets.json is present exactly
\* when an asset was written, and then it is the member added last.
C12_ArchiveMembers ==
    Archived
        => LET names == MemberNames(dl.archive)
               ids == SeqToSet(dl.enum)
           IN /\ HasMember(dl.archive, StateJson)
              /\ \A id \in ids :
                    Cardinality({i \in 1..Len(names) : names[i] = AssetMember(id)}) = 1
              /\ \A i \in 1..Len(names) :
                    names[i] \in {StateJson, AssetsJson} \cup {AssetMember(id) : id \in ids}
              /\ HasMember(dl.archive, AssetsJson) <=> ids # {}
              /\ HasMember(dl.archive, AssetsJson) => names[Len(names)] = AssetsJson

\* an archive with two assets and the index as its last member
C12_Witness ==
    /\ Archived
    /\ Cardinality(SeqToSet(dl.enum)) >= 2
    /\ MemberNames(dl.archive)[Len(dl.archive)] = AssetsJson

\* the OpenFile in flight reads the archive of the last DownloadToFile, which
\* packaged a registry without duplicate ids
OpensArchive ==
    /\ Archived
    /\ open.pc \notin {"idle", "done"}
    /\ open.file = FileOfArchive(dl.archive)
    /\ Len(dl.enum) = Cardinality(SeqToSet(dl.enum))

\* C11: opening an archive that DownloadToFile produced from N assets and a
\* snapshot never ends in the catch block; when the state is applied, exactly
\* those N ids are listed and registered, each with its binary member, and the
\* snapshot applied is the snapshot that was packaged.
C11_RoundTrip ==
    [][/\ (OpensArchive /\ open'.pc = "done") => ~open'.logged /\ open.pc = "setSnapshot"
       /\ (OpensArchive /\ open.pc = "setSnapshot" /\ open'.pc = "done")
            => /\ open'.result = "ok"
               /\ committed' = dl.snapshot
               /\ open.file.listed = SeqToSet(dl.enum)
               /\ Cardinality(open.file.listed) = Len(dl.enum)
               /\ \A id \in open.file.listed : HasMember(dl.archive, AssetMember(id))
               /\ SeqToSet(dl.enum) \subseteq assets
               /\ assets' = assets]_vars

\* an archive with two assets has been opened in a new session whose state was
\* another one, and its snapshot is the committed state
C11_Witness ==
    /\ Archived
    /\ open.pc = "done"
    /\ open.result = "ok"
    /\ open.file = FileOfArchive(dl.archive)
    /\ Len(dl.enum) = 2
    /\ Cardinality(SeqToSet(dl.enum)) = 2
    /\ SeqToSet(dl.enum) \subseteq assets
    /\ dl.snapshot # 0
    /\ open.before # dl.snapshot
    /\ committed = dl.snapshot

\* C13: no step of OpenFile, whether it ends applied, logged or failed, takes an
\* entry out of the asset registry; the handler only adds entries.
C13_RegistryOnlyGrows == [][assets \subseteq assets']_vars

\* an archive with an index has been read and applied while the registry held
\* an asset the index does not list; that asset is still registered
C13_Witness ==
    /\ open.pc = "done"
    /\ open.result = "ok"
    /\ ~open.logged
    /\ open.file.assetsMember
    /\ open.file.assetsParse
    /\ open.file.listed # {}
    /\ open.file.listed \subseteq assets
    /\ assets \ open.file.listed # {}

FetchStep == fetch' # fetch

\* C14: Fetch applies the fetched data only in the step after the request has
\* completed; a failed request ends the command as failed with the state
\* unchanged, and it is the only request the command issues.
C14_FetchAfterRequest ==
    [][FetchStep
         => /\ committed' # committed
                 => /\ fetch.pc = "setRemoteSnapshot"
                    /\ fetch.response = "ok"
                    /\ committed' = fetch.data
            /\ fetch.pc = "request" => committed' = committed /\ fetch.requests = 1
            /\ fetch'.response = "failed"
                 => /\ fetch'.pc = "done"
                    /\ fetch'.result = "failed"
                    /\ fetch'.requests = 1
                    /\ committed' = committed]_vars

\* a request has failed: the command is over, failed, after one request
C14_Witness ==
    /\ fetch.pc = "done"
    /\ fetch.response = "failed"
    /\ fetch.result = "failed"
    /\ fetch.requests = 1

\* a step of a snapshot-list command: it records itself or changes the list
ListStep == last' # last \/ snaps' # snaps

CurrentValid(s) ==
    \/ s.current = NoEntry
    \/ Cardinality({i \in 1..Len(s.entries) : s.entries[i].id = s.current}) = 1

\* C15: after every snapshot-list command the current id is none or the id of
\* exactly one entry of the list; Remove of the current entry and Clear both
\* leave current = none.
C15_CurrentInList ==
    [][/\ CurrentValid(snaps')
       /\ (ListStep /\ last'.op = "Remove" /\ last'.ref = snaps.current)
            => snaps'.current = NoEntry
       /\ (ListStep /\ last'.op = "Clear") => snaps'.current = NoEntry]_vars

\* the current entry has been removed from a list that keeps another entry
C15_Witness ==
    /\ last.op = "Remove"
    /\ ~HasEntry(snaps, last.ref)
    /\ snaps.current = NoEntry
    /\ Len(snaps.entries) >= 1

Occurrences(s, x) == Cardinality({i \in 1..Len(s) : s[i] = x})

IsPermutation(s, t) ==
    /\ Len(s) = Len(t)
    /\ \A x \in SeqToSet(s) \cup SeqToSet(t) : Occurrences(s, x) = Occurrences(t, x)

\* C16: Move exchanges the entry with its neighbor in the given direction and
\* changes nothing at a boundary or for an unknown id, so the list after it is
\* a permutation of the list before; [1, 2, 3] with Move(2, forward) gives
\* [1, 3, 2]; Clear after Remove gives the empty list with current = none.
C16_MoveSwaps ==
    [][/\ (ListStep /\ last'.op = "Move")
            => LET id == last'.ref
                   dir == last'.target
                   n == Len(snaps.entries)
               IN /\ IsPermutation(snaps.entries, snaps'.entries)
                  /\ snaps'.current = snaps.current
                  /\ IF HasEntry(snaps, id) /\ IndexOf(snaps, id) + dir \in 1..n
                     THEN LET i == IndexOf(snaps, id)
                          IN /\ snaps'.entries[i + dir] = snaps.entries[i]
                             /\ snaps'.entries[i] = snaps.entries[i + dir]
                             /\ \A k \in 1..n \ {i, i + dir} :
                                   snaps'.entries[k] = snaps.entries[k]
                     ELSE snaps'.entries = snaps.entries
                  /\ (EntryIdsOf(snaps) = <<1, 2, 3>> /\ id = 2 /\ dir = Forward)
                        => EntryIdsOf(snaps') = <<1, 3, 2>>
       /\ (ListStep /\ last.op = "Remove" /\ last'.op = "Clear")
            => snaps'.entries = <<>> /\ snaps'.current = NoEntry]_vars

\* Move(2, forward) has turned [1, 2, 3] into [1, 3, 2]
C16_Witness ==
    /\ last.op = "Move"
    /\ last.ref = 2
    /\ last.target = Forward
    /\ EntryIdsOf(snaps) = <<1, 3, 2>>

RegisterCalled(e) == register(e.obj, e.ref) \in SeqToSet(e.calls)

\* C17: in every update that creates or recreates a node A and its child B,
\* the notification for A comes strictly before the one for B, and when both
\* carry behaviors the hook has registered A's behavior before it registers B's.
C17_ParentBeforeChild ==
    \A i, j \in 1..Len(recon.events) :
        LET a == recon.events[i]
            b == recon.events[j]
        IN (a.ref # b.ref /\ tree.transforms[b.ref].parent = a.ref)
              => /\ i < j
                 /\ (isBehavior(a.obj) /\ isBehavior(b.obj) /\ RegisterCalled(b))
                       => RegisterCalled(a)

BehaviorIds == 1..MaxObjs

CallsOf(fn, id) == {i \in 1..Len(calllog) : calllog[i].fn = fn /\ calllog[i].obj = id}

\* the behaviors registered against ref and not unregistered since
RegisteredOn(ref) ==
    {id \in BehaviorIds :
        /\ \E i \in CallsOf("register", id) : calllog[i].ref = ref
        /\ CallsOf("unregister", id) = {}}

\* C18: over the lifecycle of a ref every behavior gets at most one register
\* and one unregister call, the register first; the behavior backing a cell
\* has got its register call; at most one behavior is registered for a ref,
\* and none once the cell is removed.
C18_OneRegisterOneUnregister ==
    /\ \A id \in BehaviorIds :
          /\ Cardinality(CallsOf("register", id)) <= 1
          /\ Cardinality(CallsOf("unregister", id)) <= 1
          /\ \A j \in CallsOf("unregister", id) : \E i \in CallsOf("register", id) : i < j
    /\ \A ref \in SyncRefs :
          /\ Cardinality(RegisteredOn(ref)) <= 1
          /\ hook.cell[ref] = NoCell => RegisteredOn(ref) = {}
          /\ (hook.cell[ref] # NoCell /\ isBehavior(hook.cell[ref]))
                => Cardinality(CallsOf("register", hook.cell[ref].id)) = 1

\* where the upward walk has to stop: at the root, below a parent with several
\* children, or below a parent that is not a ghost
WalkStopsAt(t, n) ==
    \/ IsTreeRoot(t, n)
    \/ Len(t.children[t.transforms[n].parent]) > 1
    \/ ~t.transforms[t.transforms[n].parent].isGhost

RECURSIVE ghostWalkPath(_, _, _)
\* the refs the walk visits from n, for at most fuel steps to a parent
ghostWalkPath(t, n, fuel) ==
    IF WalkStopsAt(t, n) \/ fuel = 0 THEN <<n>>
    ELSE <<n>> \o ghostWalkPath(t, t.transforms[n].parent, fuel - 1)

\* C19: with removeParentGhosts=true the walk from ref visits distinct nodes,
\* each the parent of the one before, at most as many as the tree has, and ends
\* at a node where it has to stop; that node is the one ref handed to remove(),
\* which is called exactly once.
C19_WalkTerminates ==
    [][RemovedWithGhosts
          => LET n == Cardinality(Nodes(tree))
                 path == ghostWalkPath(tree, last'.ref, n)
                 calls == removeCalls(tree, last'.ref, TRUE)
             IN /\ Len(path) <= n
                /\ \A i, j \in 1..Len(path) : path[i] = path[j] => i = j
                /\ \A i \in 1..(Len(path) - 1) : path[i + 1] = tree.transforms[path[i]].parent
                /\ WalkStopsAt(tree, path[Len(path)])
                /\ Len(calls) = 1
                /\ calls[1] = path[Len(path)]
                /\ last'.target = calls[1]
                /\ Nodes(tree') = Nodes(tree) \ SubtreeOf(tree, calls[1])]_vars

\* a walk of two steps below the root: the removal took the grandparent of ref
C19_Witness ==
    /\ last.op = "RemoveObject"
    /\ last.flag
    /\ last.target # last.ref
    /\ Cardinality(last.removed) >= 3
    /\ last.ref \in last.removed
    /\ RootRef \notin last.removed

Toggled == last'.op = "ToggleVisibility"

\* C20: ToggleVisibility(ref) gives ref and every descendant the negation of
\* the isHidden flag ref had before the command, whatever the descendants had;
\* a second ToggleVisibility(ref) right after it gives the whole subtree the
\* flag ref had before the first one.
C20_ToggleSubtree ==
    [][/\ Toggled
            => \A n \in SubtreeOf(tree, last'.ref) :
                  cells'[n].isHidden = ~cells[last'.ref].isHidden
       /\ (Toggled /\ last.op = "ToggleVisibility" /\ last.ref = last'.ref)
            => \A n \in SubtreeOf(tree, last'.ref) : cells'[n].isHidden = ~last.flag]_vars

\* a subtree of two nodes was toggled to hidden while the root stays visible
C20_Witness ==
    /\ last.op = "ToggleVisibility"
    /\ last.ref # RootRef
    /\ last.flag
    /\ Cardinality(SubtreeOf(tree, last.ref)) >= 2
    /\ \A n \in SubtreeOf(tree, last.ref) : cells[n].isHidden
    /\ ~cells[RootRef].isHidden

VisibilitySet == last'.op \in {"setSubtreeVisibility", "ToggleVisibility"}

\* C21: setSubtreeVisibility and ToggleVisibility leave the tree and the set of
\* cells as they are, keep isCollapsed and isGhost of every cell, and keep
\* every flag of the cells outside the subtree of their ref.
C21_VisibilityFrame ==
    [][VisibilitySet
          => /\ tree' = tree
             /\ DOMAIN cells' = DOMAIN cells
             /\ \A n \in DOMAIN cells :
                   /\ cells'[n].isCollapsed = cells[n].isCollapsed
                   /\ cells'[n].isGhost = cells[n].isGhost
             /\ \A n \in DOMAIN cells \ SubtreeOf(tree, last'.ref) : cells'[n] = cells[n]]_vars

\* a proper subtree with a collapsed cell was made visible while the root,
\* outside of it, is still hidden
C21_Witness ==
    /\ last.op \in {"setSubtreeVisibility", "ToggleVisibility"}
    /\ last.ref # RootRef
    /\ ~last.flag
    /\ cells[last.ref].isCollapsed
    /\ ~cells[last.ref].isHidden
    /\ cells[RootRef].isHidden

\* the ids listed in the index of an archive, and the ids that have a member
IndexedIds(obj) ==
    IF HasMember(obj, AssetsJson) THEN SeqToSet(MemberData(obj, AssetsJson).ids) ELSE {}

MemberIds(obj) == {id \in AssetIds : HasMember(obj, AssetMember(id))}

\* C22: in every archive DownloadToFile produces, the ids listed in
\* assets.json are exactly the ids that have an assets/<id> member, also when
\* the registry listed an id twice or got an entry while a member was read.
C22_IndexAgreesWithMembers ==
    Archived => IndexedIds(dl.archive) = MemberIds(dl.archive)

\* an archive packaged from a registry that listed an id twice and that got a
\* new entry while a member was being read
C22_Witness ==
    /\ Archived
    /\ Len(dl.enum) > Cardinality(SeqToSet(dl.enum))
    /\ dl.changed
    /\ MemberIds(dl.archive) # {}
    /\ assets \ SeqToSet(dl.enum) # {}

Applied == last'.op = "Apply"

\* C23: Apply with an id that has no entry does not call setSnapshot and
\* leaves the committed state, the tree and the cells as they are; Apply with
\* the id of an entry calls it and commits exactly the payload of that entry.
C23_ApplyUnknownId ==
    [][Applied
          => IF ~HasEntry(snaps, last'.ref)
             THEN /\ ~last'.flag
                  /\ committed' = committed
                  /\ tree' = tree
                  /\ cells' = cells
             ELSE /\ last'.flag
                  /\ committed' = snaps.entries[IndexOf(snaps, last'.ref)].data]_vars

\* Apply was given an id that none of the two entries of the list has, while
\* the committed state differs from the payload of both
C23_Witness ==
    /\ last.op = "Apply"
    /\ ~last.flag
    /\ ~HasEntry(snaps, last.ref)
    /\ Len(snaps.entries) >= 2
    /\ \A i \in 1..Len(snaps.entries) : snaps.entries[i].data # committed

====
